---- MODULE Spec2Model ----
(***************************************************************************)
(* Model of the skyline-update server (update-server/src/main.rs and       *)
(* hosted_plugins.rs, tar implementation) and of the clients that talk to  *)
(* its control port and its data port.                                     *)
(*                                                                         *)
(* Strings of the program (version strings, paths, file contents, wire     *)
(* buffers) are TLA+ strings; a blob is the string of its bytes.           *)
(***************************************************************************)
EXTENDS Integers, Sequences, FiniteSets, TLC

(***************************************************************************)
(* Bounds of the model.                                                    *)
(***************************************************************************)
\* control-plane connections opened over a run
MaxCtrl == 1
\* data-plane connections opened over a run
MaxData == 2
\* filesystem changes (hence watcher events from outside) over a run
MaxChanges == 1

(***************************************************************************)
(* Option<T>: None is <<>>, Some(x) is <<x>>.                              *)
(***************************************************************************)
None == <<>>

Some(x) == <<x>>

IsSome(o) == o # <<>>

UnwrapOr(o, d) == IF o = <<>> THEN d ELSE o[1]

\* the element of a one-element set
The(S) == CHOOSE v \in S : TRUE

(***************************************************************************)
(* String helpers.                                                         *)
(***************************************************************************)
\* the one-character string at position i of s, "" outside the string
CharAt(s, i) == IF i >= 1 /\ i <= Len(s) THEN SubSeq(s, i, i) ELSE ""

Digits == {"0", "1", "2", "3", "4", "5", "6", "7", "8", "9"}

DigitVal == ("0" :> 0) @@ ("1" :> 1) @@ ("2" :> 2) @@ ("3" :> 3) @@ ("4" :> 4)
            @@ ("5" :> 5) @@ ("6" :> 6) @@ ("7" :> 7) @@ ("8" :> 8) @@ ("9" :> 9)

Letters == {"a", "b", "c", "d", "e", "r", "t"}

LetterRank == ("a" :> 1) @@ ("b" :> 2) @@ ("c" :> 3) @@ ("d" :> 4) @@ ("e" :> 5)
              @@ ("r" :> 6) @@ ("t" :> 7)

\* str::find: position of the first occurrence of pat in s, 0 when absent
RECURSIVE FindFrom(_, _, _)
FindFrom(s, pat, i) ==
    IF i + Len(pat) - 1 > Len(s) THEN 0
    ELSE IF SubSeq(s, i, i + Len(pat) - 1) = pat THEN i
    ELSE FindFrom(s, pat, i + 1)

Find(s, pat) == FindFrom(s, pat, 1)

\* position of the last occurrence of the one-character string c in s, 0 when absent
RECURSIVE RFindFrom(_, _, _)
RFindFrom(s, c, i) ==
    IF i = 0 THEN 0
    ELSE IF CharAt(s, i) = c THEN i
    ELSE RFindFrom(s, c, i - 1)

RFind(s, c) == RFindFrom(s, c, Len(s))

\* Path::file_name: the last component of a path
FileName(p) == SubSeq(p, RFind(p, "/") + 1, Len(p))

\* Path::file_stem: the file name without its last extension
FileStem(p) ==
    LET n == FileName(p)
        d == RFind(n, ".")
    IN  IF d <= 1 THEN n ELSE SubSeq(n, 1, d - 1)

\* Path::extension: the part of the file name after its last dot, "" when none
Extension(p) ==
    LET n == FileName(p)
        d == RFind(n, ".")
    IN  IF d <= 1 THEN "" ELSE SubSeq(n, d + 1, Len(n))

(***************************************************************************)
(* semver::Version, for the grammar MAJOR.MINOR.PATCH[-pre] with one       *)
(* alphabetic pre-release identifier.  A Version is a record; pre = ""     *)
(* when the version has no pre-release part.                               *)
(***************************************************************************)
\* end of the run of digits of s that starts at i (i - 1 when there is none)
RECURSIVE DigitsEnd(_, _)
DigitsEnd(s, i) ==
    IF i <= Len(s) /\ CharAt(s, i) \in Digits THEN DigitsEnd(s, i + 1) ELSE i - 1

RECURSIVE NumVal(_, _, _)
NumVal(s, i, j) ==
    IF j < i THEN 0 ELSE NumVal(s, i, j - 1) * 10 + DigitVal[CharAt(s, j)]

\* a numeric identifier: one or more digits, no leading zero
NumOk(s, i, j) == j >= i /\ (j > i => CharAt(s, i) # "0")

RECURSIVE AllLetters(_, _)
AllLetters(s, i) ==
    IF i > Len(s) THEN TRUE
    ELSE CharAt(s, i) \in Letters /\ AllLetters(s, i + 1)

\* str::parse::<Version>: Some(version) or None
ParseVersion(s) ==
    LET e1 == DigitsEnd(s, 1)
        e2 == DigitsEnd(s, e1 + 2)
        e3 == DigitsEnd(s, e2 + 2)
        rest == SubSeq(s, e3 + 1, Len(s))
        pre == SubSeq(rest, 2, Len(rest))
    IN  IF /\ NumOk(s, 1, e1) /\ CharAt(s, e1 + 1) = "."
           /\ NumOk(s, e1 + 2, e2) /\ CharAt(s, e2 + 1) = "."
           /\ NumOk(s, e2 + 2, e3)
           /\ \/ rest = ""
              \/ CharAt(rest, 1) = "-" /\ pre # "" /\ AllLetters(pre, 1)
        THEN Some([major |-> NumVal(s, 1, e1),
                   minor |-> NumVal(s, e1 + 2, e2),
                   patch |-> NumVal(s, e2 + 2, e3),
                   pre |-> pre])
        ELSE None

\* Display for Version
VersionToString(v) ==
    ToString(v.major) \o "." \o ToString(v.minor) \o "." \o ToString(v.patch)
        \o (IF v.pre = "" THEN "" ELSE "-" \o v.pre)

\* ASCII order of two alphabetic identifiers: a strictly before b
RECURSIVE StrLess(_, _)
StrLess(a, b) ==
    IF b = "" THEN FALSE
    ELSE IF a = "" THEN TRUE
    ELSE IF CharAt(a, 1) = CharAt(b, 1)
         THEN StrLess(SubSeq(a, 2, Len(a)), SubSeq(b, 2, Len(b)))
         ELSE LetterRank[CharAt(a, 1)] < LetterRank[CharAt(b, 1)]

\* Ord for Version: a < b (a pre-release sorts before its release)
VersionLess(a, b) ==
    IF a.major # b.major THEN a.major < b.major
    ELSE IF a.minor # b.minor THEN a.minor < b.minor
    ELSE IF a.patch # b.patch THEN a.patch < b.patch
    ELSE IF a.pre = b.pre THEN FALSE
    ELSE IF a.pre = "" THEN FALSE
    ELSE IF b.pre = "" THEN TRUE
    ELSE StrLess(a.pre, b.pre)

VersionLeq(a, b) == a = b \/ VersionLess(a, b)

(***************************************************************************)
(* The plugin root on disk, as hosted_plugins.rs reads it.                 *)
(*                                                                         *)
(* A directory entry of "plugins" is a record                              *)
(*   path     the entry's path, "plugins/<dir>"                            *)
(*   is_dir   whether it is a directory                                    *)
(*   toml     "ok", "missing" (plugin.toml cannot be read) or "malformed"  *)
(*   doc      the fields of PluginToml when the descriptor is well formed; *)
(*            what fs::read yields for a declared file, image or changelog *)
(*            is stored next to its path (None: the read fails)            *)
(***************************************************************************)
\* the server's working directory
Cwd == "/srv"

\* Path::join for a relative second path
Join(a, b) == a \o "/" \o b

AbsolutePath(p) == [tag |-> "AbsolutePath", path |-> p]

\* to_file over the declared files, collected: Some(files), or None when the
\* read of one of them fails
ToFiles(files) ==
    IF \E k \in 1..Len(files) : files[k].data = None THEN None
    ELSE Some([k \in 1..Len(files) |->
                 [install |-> files[k].install_location, data |-> files[k].data[1]]])

\* tar::Builder::append_path_with_name for one file: the archive grows by one entry
TarAppend(tar, name, data) == tar \o "[" \o name \o "=" \o data \o "]"

\* tar::Builder::finish: the end-of-archive marker
TarFinish(tar) == tar \o "."

\* the name under which a walked file is stored in the archive
ArchiveEntryName(plugin_path, folder, rel) ==
    LET folder_dep_path == Join(plugin_path, folder.root_name)
        folder_dep_name == FileName(folder_dep_path)
        curr_absolute_dir == Join(folder_dep_path, rel)
        curr_recurse_dir == SubSeq(curr_absolute_dir, Find(curr_absolute_dir, "plugins"),
                                   Len(curr_absolute_dir))
    IN  SubSeq(curr_recurse_dir, Find(curr_recurse_dir, folder_dep_name),
               Len(curr_recurse_dir))

\* whether append_path_with_name can open the walked file: it is handed the
\* path from the first "plugins" on, which it resolves against the working directory
ArchiveSourceOpens(plugin_path, folder, rel) ==
    LET curr_absolute_dir == Join(Join(plugin_path, folder.root_name), rel)
    IN  Join(Cwd, SubSeq(curr_absolute_dir, Find(curr_absolute_dir, "plugins"),
                         Len(curr_absolute_dir))) = curr_absolute_dir

\* the walk over one folder bundle: [status, tar]; an error of the walk is
\* returned with `?`, a file that cannot be appended ends in the unwrap
RECURSIVE TarWalk(_, _, _, _)
TarWalk(plugin_path, folder, k, tar) ==
    IF k > Len(folder.tree) THEN [status |-> "ok", tar |-> TarFinish(tar)]
    ELSE IF ~folder.tree[k].walk_ok THEN [status |-> "err", tar |-> tar]
    ELSE IF ~folder.tree[k].read_ok
            \/ ~ArchiveSourceOpens(plugin_path, folder, folder.tree[k].rel)
         THEN [status |-> "panic", tar |-> tar]
    ELSE TarWalk(plugin_path, folder, k + 1,
                 TarAppend(tar, ArchiveEntryName(plugin_path, folder, folder.tree[k].rel),
                           folder.tree[k].data))

\* the install location of a bundle's archive
TarInstallLocation(folder) ==
    AbsolutePath((IF folder.install_root_location.tag = "AbsolutePath"
                  THEN folder.install_root_location.path ELSE "ERR") \o ".tar")

\* the loop over the folder bundles: [status, files, tars]; tars counts the
\* archive files created in the plugin directory
RECURSIVE HandleFolders(_, _, _, _, _)
HandleFolders(plugin_path, folders, k, files, tars) ==
    IF k > Len(folders) THEN [status |-> "ok", files |-> files, tars |-> tars]
    ELSE IF ~folders[k].create_ok THEN [status |-> "err", files |-> files, tars |-> tars]
    ELSE LET w == TarWalk(plugin_path, folders[k], 1, "")
         IN  IF w.status # "ok"
             THEN [status |-> w.status, files |-> files, tars |-> tars + 1]
             ELSE HandleFolders(plugin_path, folders, k + 1,
                      Append(files, [install |-> TarInstallLocation(folders[k]),
                                     data |-> w.tar]),
                      tars + 1)

\* the default Metadata
DefaultMetadata == [name |-> None, images |-> None, description |-> None, changelog |-> None]

\* fs::read(path).unwrap_or_default() over the image paths
ReadImages(images) == [k \in 1..Len(images) |-> UnwrapOr(images[k], "")]

\* TomlMetadata to Metadata
ToMetadata(metadata) ==
    IF metadata = None THEN DefaultMetadata
    ELSE [name |-> metadata[1].name,
          images |-> IF metadata[1].images = None THEN None
                     ELSE Some(ReadImages(metadata[1].images[1])),
          description |-> metadata[1].description,
          changelog |-> IF metadata[1].changelog = None THEN None
                        ELSE metadata[1].changelog[1]]

\* folder_to_plugin: [status, plugin, tars] with status "ok" (Ok(Some)),
\* "none" (Ok(None)), "err" (Err) or "panic"
folder_to_plugin(dir) ==
    LET nothing == [status |-> "none", plugin |-> None, tars |-> 0]
        error == [status |-> "err", plugin |-> None, tars |-> 0]
    IN  IF ~dir.is_dir THEN nothing
        ELSE IF dir.toml # "ok" \/ ParseVersion(dir.doc.version) = None THEN error
        ELSE LET files == ToFiles(dir.doc.files)
                 plugin_path == Join(Cwd, dir.path)
             IN  IF files = None THEN error
                 ELSE LET f == HandleFolders(plugin_path, UnwrapOr(dir.doc.folders, <<>>),
                                             1, files[1], 0)
                      IN  IF f.status # "ok"
                          THEN [status |-> f.status, plugin |-> None, tars |-> f.tars]
                          ELSE [status |-> "ok",
                                plugin |-> Some(
                                    [name |-> dir.doc.name,
                                     plugin_version |-> ParseVersion(dir.doc.version)[1],
                                     files |-> f.files,
                                     skyline_version |->
                                         IF dir.doc.skyline_version = None
                                            \/ ParseVersion(dir.doc.skyline_version[1]) = None
                                         THEN ParseVersion("0.0.0")[1]
                                         ELSE ParseVersion(dir.doc.skyline_version[1])[1],
                                     beta |-> UnwrapOr(dir.doc.beta, FALSE),
                                     metadata |-> ToMetadata(dir.doc.metadata)]),
                                tars |-> f.tars]

\* the archive files created while the first n directory entries were loaded
RECURSIVE TarsUpTo(_, _)
TarsUpTo(loaded, n) == IF n = 0 THEN 0 ELSE loaded[n].tars + TarsUpTo(loaded, n - 1)

\* a scan that gives up at the first entry whose load fails
CollectUntilError(loaded) ==
    LET stops == {k \in 1..Len(loaded) : loaded[k].status \in {"err", "panic"}}
        n == IF stops = {} THEN Len(loaded)
             ELSE (CHOOSE k \in stops : \A j \in stops : k <= j) - 1
        okay(r) == r.status = "ok"
        kept == SelectSeq(SubSeq(loaded, 1, n), okay)
    IN  [status |-> "ok",
         plugins |-> [k \in 1..Len(kept) |-> kept[k].plugin[1]],
         tars |-> TarsUpTo(loaded, n)]

\* filter_map(..).collect() over the results of folder_to_plugin, entry by
\* entry: [status, plugins, tars]; a panic ends the scan at its entry
Collect(loaded) ==
    LET panics == {k \in 1..Len(loaded) : loaded[k].status = "panic"}
        okay(r) == r.status = "ok"
    IN  IF panics # {}
        THEN [status |-> "panic", plugins |-> <<>>,
              tars |-> TarsUpTo(loaded, CHOOSE k \in panics : \A j \in panics : k <= j)]
        ELSE [status |-> "ok",
              plugins |-> [k \in 1..Len(SelectSeq(loaded, okay)) |->
                             SelectSeq(loaded, okay)[k].plugin[1]],
              tars |-> TarsUpTo(loaded, Len(loaded))]

\* hosted_plugins::get: the root is [readable, entries]
get(root) ==
    IF ~root.readable THEN [status |-> "err", plugins |-> <<>>, tars |-> 0]
    ELSE The({Collect(loaded) :
                loaded \in {[k \in 1..Len(root.entries) |->
                               folder_to_plugin(root.entries[k])]}})

(***************************************************************************)
(* setup_plugin_ports: the catalog generation built from the plugin root.  *)
(***************************************************************************)
\* the files of one plugin, numbered from i
IndexFiles(files, i) ==
    [k \in 1..Len(files) |->
        [install |-> files[k].install, index |-> i + k - 1, data |-> files[k].data]]

ImageCount(metadata) == IF metadata.images = None THEN 0 ELSE Len(metadata.images[1])

\* the Plugin built from one hosted plugin when the counter stands at i
ToPlugin(plugin, i) ==
    LET next == i + Len(plugin.files)
        image_count == ImageCount(plugin.metadata)
    IN  [name |-> plugin.name,
         plugin_version |-> plugin.plugin_version,
         skyline_version |-> plugin.skyline_version,
         files |-> IndexFiles(plugin.files, i),
         metadata_files |-> UnwrapOr(plugin.metadata.images, <<>>)
                            \o plugin.metadata.changelog,
         metadata |-> [name |-> plugin.metadata.name,
                       description |-> plugin.metadata.description,
                       images_index |-> next,
                       image_count |-> image_count,
                       changelog_index |-> next + image_count],
         beta |-> plugin.beta]

RECURSIVE ToPlugins(_, _, _)
ToPlugins(hosted, k, i) ==
    IF k > Len(hosted) THEN <<>>
    ELSE <<ToPlugin(hosted[k], i)>> \o ToPlugins(hosted, k + 1, i + Len(hosted[k].files))

\* the flat table: the blobs of every plugin's files, in catalog order
RECURSIVE FlatFiles(_, _)
FlatFiles(plugins, k) ==
    IF k > Len(plugins) THEN <<>>
    ELSE [j \in 1..Len(plugins[k].files) |-> plugins[k].files[j].data]
         \o FlatFiles(plugins, k + 1)

\* the generation made of the loaded plugins g and the entries ps built from them
Generation(g, ps) ==
    [status |-> g.status, plugins |-> ps, files |-> FlatFiles(ps, 1), tars |-> g.tars]

\* setup_plugin_ports: [status, plugins, files, tars]
setup_plugin_ports(root) ==
    The(UNION {{Generation(g, ps) : ps \in {ToPlugins(g.plugins, 1, 0)}} :
                 g \in {get(root)}})

(***************************************************************************)
(* The plugin directories and the states of the plugin root the model's    *)
(* filesystem moves between.                                               *)
(***************************************************************************)
PluginFile(loc, filename, data) ==
    [install_location |-> loc, filename |-> filename, data |-> data]

PluginFolder(loc, root_name, tree) ==
    [install_root_location |-> loc, root_name |-> root_name, tree |-> tree,
     create_ok |-> TRUE]

\* a file the walk over a bundle's folder finds: its path below the folder,
\* its bytes, whether the walk reaches it and whether it can be opened
TreeFile(rel, data) == [rel |-> rel, data |-> data, walk_ok |-> TRUE, read_ok |-> TRUE]

PluginToml(version, name, beta, pfiles, folders, metadata) ==
    [version |-> version, name |-> name, beta |-> beta, files |-> pfiles,
     folders |-> folders, skyline_version |-> None, metadata |-> metadata]

PluginDir(path, doc) == [path |-> path, is_dir |-> TRUE, toml |-> "ok", doc |-> doc]

NoDoc == PluginToml("", "", None, <<>>, None, None)

FooMeta ==
    [name |-> Some("Foo"), images |-> Some(<<Some("i"), None>>),
     description |-> None, changelog |-> Some(Some("log"))]

\* Foo 1.0.0: one declared file, one folder bundle, metadata
Foo1 ==
    PluginDir("plugins/Foo",
        PluginToml("1.0.0", "Foo", None,
            <<PluginFile(AbsolutePath("sd:/foo.nro"), "foo.nro", Some("ab"))>>,
            Some(<<PluginFolder(AbsolutePath("sd:/B"), "B",
                        <<TreeFile("a", "x")>>)>>),
            Some(FooMeta)))

\* Foo 2.0.0-beta, flagged beta
Foo2Beta ==
    PluginDir("plugins/FooBeta",
        PluginToml("2.0.0-beta", "Foo", Some(TRUE),
            <<PluginFile(AbsolutePath("sd:/foo.nro"), "foo.nro", Some("cde"))>>,
            None, None))

\* Foo 2.0.0, not beta
Foo2 ==
    PluginDir("plugins/Foo2",
        PluginToml("2.0.0", "Foo", Some(FALSE),
            <<PluginFile(AbsolutePath("sd:/foo.nro"), "foo.nro", Some("fg")),
              PluginFile(AbsolutePath("sd:/foo.cfg"), "foo.cfg", Some(""))>>,
            None, None))

\* Bar 0.9.0
Bar ==
    PluginDir("plugins/Bar",
        PluginToml("0.9.0", "Bar", None,
            <<PluginFile(AbsolutePath("sd:/bar.nro"), "bar.nro", Some("q"))>>,
            None, None))

\* a directory whose descriptor does not parse
BadToml == [path |-> "plugins/Bad", is_dir |-> TRUE, toml |-> "malformed", doc |-> NoDoc]

\* a directory whose descriptor carries an unparsable version
BadVersion ==
    PluginDir("plugins/Old",
        PluginToml("1.0", "Foo", None,
            <<PluginFile(AbsolutePath("sd:/old.nro"), "old.nro", Some("zz"))>>,
            None, None))

\* a plain file in the plugin root
NotDir == [path |-> "plugins/notes.txt", is_dir |-> FALSE, toml |-> "missing", doc |-> NoDoc]

\* a directory without plugin.toml
NoToml == [path |-> "plugins/Empty", is_dir |-> TRUE, toml |-> "missing", doc |-> NoDoc]

\* a directory whose declared file cannot be read
LostFile ==
    PluginDir("plugins/Lost",
        PluginToml("1.0.0", "Lost", None,
            <<PluginFile(AbsolutePath("sd:/lost.nro"), "lost.nro", None)>>, None, None))

\* a plugin with one folder bundle "B" whose folder holds tree, in the
\* directory path
Bundled(path, name, create_ok, tree) ==
    PluginDir(path,
        PluginToml("1.0.0", name, None, <<>>,
            Some(<<[PluginFolder(AbsolutePath("sd:/mods"), "B", tree)
                       EXCEPT !.create_ok = create_ok]>>),
            None))

\* a bundle of two files, one of them in a subfolder
Deep == Bundled("plugins/Deep", "Deep", TRUE, <<TreeFile("a", "x"), TreeFile("s/b", "yz")>>)

\* a bundle in a plugin directory whose own name contains the folder's name
Nested == Bundled("plugins/AB", "Nested", TRUE, <<TreeFile("a", "x")>>)

\* bundles whose packaging fails: the archive file cannot be created, the
\* walk reports an error, a walked file cannot be opened
NoCreate == Bundled("plugins/RO", "RO", FALSE, <<TreeFile("a", "x")>>)

WalkFails ==
    Bundled("plugins/Loop", "Loop", TRUE,
            <<TreeFile("a", "x"), [TreeFile("b", "") EXCEPT !.walk_ok = FALSE]>>)

Locked ==
    Bundled("plugins/Locked", "Locked", TRUE,
            <<[TreeFile("a", "") EXCEPT !.read_ok = FALSE], TreeFile("b", "y")>>)

ReadableRoot(entries) == [readable |-> TRUE, entries |-> entries]

\* the states of the plugin root
Roots ==
    { ReadableRoot(<<Foo2Beta>>),
      ReadableRoot(<<Bar, Foo1, Foo2Beta, NotDir>>),
      ReadableRoot(<<Foo2, Foo1, BadToml, BadVersion>>),
      [readable |-> FALSE, entries |-> <<>>] }

\* at most this many entries in a plugin root the scan is tried on
MaxEntries == 3

\* the entries a plugin root is made of when the scan is tried on its own
ScanDirs ==
    {Foo1, Bar, Foo2Beta, Deep, Nested, BadToml, BadVersion, NotDir, NoToml, LostFile,
     NoCreate, WalkFails, Locked}

\* the plugin roots the scan is tried on: every listing of up to MaxEntries
\* entries with different paths, and the root that cannot be read
ScanRoots ==
    {[readable |-> FALSE, entries |-> <<>>]}
    \cup UNION {{ReadableRoot(entries) :
                   entries \in {e \in [1..n -> ScanDirs] :
                                  \A i, j \in 1..n : i # j => e[i].path # e[j].path}} :
                n \in 0..MaxEntries}

Event(kind, path) == [kind |-> kind, path |-> path]

\* the debounced events the watcher reports for changes made from outside,
\* and its error event
Events ==
    { Event("Write", "plugins/Foo/plugin.toml"),
      Event("Create", "plugins/Foo/B.tar"),
      Event("Remove", "plugins/Foo/B.tar"),
      Event("Error", "") }

(***************************************************************************)
(* The wire: control-plane packets and data-plane index buffers.           *)
(***************************************************************************)
UpdateRequest(name, version, beta) ==
    [variant |-> "Update", plugin_name |-> name, plugin_version |-> version, beta |-> beta]

MetadataRequest(name, beta) ==
    [variant |-> "Metadata", plugin_name |-> name, plugin_version |-> "", beta |-> beta]

\* a line that is no request: variant "" is the empty or unreadable line
Garbage(variant) ==
    [variant |-> variant, plugin_name |-> "", plugin_version |-> "", beta |-> None]

\* the packets clients send
Packets ==
    { UpdateRequest("Foo", "0.9.0", None), UpdateRequest("Foo", "0.9.0", Some(TRUE)),
      UpdateRequest("Foo", "2.0.0", None), UpdateRequest("Foo", "2.0.0-beta", Some(TRUE)),
      UpdateRequest("Foo", "1.0.0", Some(FALSE)), UpdateRequest("Foo", "x", None),
      UpdateRequest("Bar", "0.1.0", None), UpdateRequest("Nope", "x", None),
      MetadataRequest("Foo", None), MetadataRequest("Nope", Some(TRUE)),
      Garbage(""), Garbage("Bogus") }

\* a decoder that takes every non-empty line for a request
DecodeRequestLoose(packet) == IF packet.variant # "" THEN Some(packet) ELSE None

\* serde_json::from_str::<Request>: Some(request) or None
DecodeRequest(packet) ==
    IF packet.variant \in {"Update", "Metadata"} THEN Some(packet) ELSE None

\* u64::to_be_bytes
RECURSIVE ToBeBytesN(_, _)
ToBeBytesN(n, k) == IF k = 0 THEN <<>> ELSE Append(ToBeBytesN(n \div 256, k - 1), n % 256)

ToBeBytes(n) == ToBeBytesN(n, 8)

\* u64::from_be_bytes
RECURSIVE FromBeBytes(_)
FromBeBytes(buf) ==
    IF buf = <<>> THEN 0
    ELSE FromBeBytes(SubSeq(buf, 1, Len(buf) - 1)) * 256 + buf[Len(buf)]

\* the indices clients try that no response gave them
GuessedIndices == {1, 256}

(***************************************************************************)
(* State.                                                                  *)
(***************************************************************************)
VARIABLES
    root,       \* the plugin root on disk
    changes,    \* filesystem changes and watcher errors so far
    rx,         \* the watcher's channel: debounced events not yet received
    pc,         \* the main loop's position: "watch", "control", "data", or
                \* "exited" once main has returned; "start" before the first
                \* build, "panicked" once the process has ended in a panic
    plugins,    \* the current catalog entries
    files,      \* the current flat table of blobs
    gen,        \* number of the current generation
    builtFrom,  \* the plugin root as the current generation's build read it
    ctrlQ,      \* control-port connections waiting in the listener, oldest first
    nCtrl,      \* control-port connections opened so far
    lastCtrl,   \* what the server did with the control connection it handled last
    dataQ,      \* data-port connections waiting in the listener, oldest first
    conns,      \* the data-port connections opened so far
    client      \* a run of the client library's custom_check_update

vars == <<root, changes, rx, pc, plugins, files, gen, builtFrom, ctrlQ, nCtrl, lastCtrl, dataQ, conns, client>>

\* the server's part of the state
serverVars == <<root, changes, rx, pc, plugins, files, gen, builtFrom, ctrlQ, nCtrl, lastCtrl, dataQ, conns>>

\* at most this many watcher events wait in the channel
MaxRx == 2

(***************************************************************************)
(* Control plane: main.rs, lines 171-227.                                  *)
(***************************************************************************)
\* the filter without its beta condition
PassesAnyBeta(plugin, name, beta) == plugin.name = name

\* the filter of the candidate selection
Passes(plugin, name, beta) == plugin.name = name /\ (beta \/ ~plugin.beta)

\* the comparison of min_by_key
TakesOverMin(ps, best, k) ==
    best = 0 \/ VersionLeq(ps[k].plugin_version, ps[best].plugin_version)

\* max_by_key's comparison: whether the entry at k takes over from the best so
\* far (of several maxima the last one wins)
TakesOver(ps, best, k) ==
    best = 0 \/ VersionLeq(ps[best].plugin_version, ps[k].plugin_version)

\* plugins.iter().filter(..).max_by_key(..): the position of the selected entry,
\* 0 when no entry passes the filter
RECURSIVE MaxByKey(_, _, _, _, _)
MaxByKey(ps, name, beta, k, best) ==
    IF k > Len(ps) THEN best
    ELSE IF Passes(ps[k], name, beta) /\ TakesOver(ps, best, k)
         THEN MaxByKey(ps, name, beta, k + 1, k)
         ELSE MaxByKey(ps, name, beta, k + 1, best)

SelectPlugin(ps, name, beta) == MaxByKey(ps, name, UnwrapOr(beta, FALSE), 1, 0)

\* UpdateFile with the size and the index taken from each other's source
UpdateFileSwapped(file) ==
    [size |-> file.index, download_index |-> Len(file.data),
     install_location |-> file.install]

\* impl From<&PluginFile> for UpdateFile
UpdateFile(file) ==
    [size |-> Len(file.data), download_index |-> file.index,
     install_location |-> file.install]

\* an UpdateResponse without an update
PlainResponse(code) ==
    [type |-> "UpdateResponse", code |-> code, update_plugin |-> FALSE,
     plugin_name |-> "", new_plugin_version |-> "", required_files |-> <<>>]

\* the comparison with <= in place of <
NeedsUpdateOrEqual(current_version, plugin_version) ==
    VersionLeq(current_version, plugin_version)

\* current_version < plugin.plugin_version
NeedsUpdate(current_version, plugin_version) == VersionLess(current_version, plugin_version)

\* CodeFor with an unparsable client version read as the lowest version
CodeForLenient(found, current_version, plugin_version) ==
    IF ~found THEN "PluginNotFound"
    ELSE IF current_version = None THEN "Update"
    ELSE IF NeedsUpdate(current_version[1], plugin_version) THEN "Update"
    ELSE "NoUpdate"

\* the code of the response to Request::Update: found says whether an entry was
\* selected, current_version is the parse of the client's version string
CodeFor(found, current_version, plugin_version) ==
    IF ~found THEN "PluginNotFound"
    ELSE IF current_version = None THEN "InvalidRequest"
    ELSE IF NeedsUpdate(current_version[1], plugin_version) THEN "Update"
    ELSE "NoUpdate"

\* the response to Request::Update
UpdateResponseFor(ps, req) ==
    LET k == SelectPlugin(ps, req.plugin_name, req.beta)
        code == CodeFor(k # 0, ParseVersion(req.plugin_version),
                        IF k = 0 THEN ParseVersion("0.0.0")[1] ELSE ps[k].plugin_version)
    IN  IF code = "Update"
        THEN [type |-> "UpdateResponse", code |-> "Update", update_plugin |-> TRUE,
              plugin_name |-> req.plugin_name,
              new_plugin_version |-> VersionToString(ps[k].plugin_version),
              required_files |->
                  [j \in 1..Len(ps[k].files) |-> UpdateFile(ps[k].files[j])]]
        ELSE PlainResponse(code)

\* the responses written to a control connection whose line is packet
Responses(ps, packet) ==
    LET req == DecodeRequest(packet)
    IN  IF req = None THEN <<PlainResponse("InvalidRequest")>>
        ELSE IF req[1].variant = "Update" THEN <<UpdateResponseFor(ps, req[1])>>
        ELSE LET k == SelectPlugin(ps, req[1].plugin_name, req[1].beta)
             IN  IF k = 0 THEN <<>>
                 ELSE <<[type |-> "PluginMetadata", metadata |-> ps[k].metadata]>>

\* the entry a decodable request resolved to, 0 when none
Candidate(ps, packet) ==
    IF DecodeRequest(packet) = None THEN 0
    ELSE SelectPlugin(ps, packet.plugin_name, packet.beta)

\* the blobs of the files of entry k, in the entry's order
EntryBlobs(ps, k) ==
    IF k = 0 THEN <<>> ELSE [j \in 1..Len(ps[k].files) |-> ps[k].files[j].data]

\* the record of a handled control connection: its number, its line, the
\* entry it resolved to with that entry's blobs, the responses written to it,
\* whether the server closed it, and the generation that answered it
NoCtrl == [seq |-> 0, packet |-> Garbage(""), cand |-> 0, blobs |-> <<>>,
           responses |-> <<>>, closed |-> FALSE, gen |-> 0]

\* a client connects to the control port and sends its line.  The connection
\* waits in the listener until the accept loop runs, so an arrival in any
\* other phase of the cycle is the same as one at the start of the loop
ConnectControl ==
    /\ pc = "control"
    /\ nCtrl < MaxCtrl
    /\ \E packet \in Packets : ctrlQ' = Append(ctrlQ, packet)
    /\ nCtrl' = nCtrl + 1
    /\ UNCHANGED <<root, changes, rx, pc, plugins, files, gen, builtFrom, lastCtrl, dataQ, conns, client>>

\* the line of a client that has connected and sends nothing
Pending == [variant |-> "pending", plugin_name |-> "", plugin_version |-> "", beta |-> None]

\* a client connects to the control port, sends nothing and keeps the
\* connection open
ConnectControlSilent ==
    /\ pc = "control"
    /\ nCtrl < MaxCtrl
    /\ ctrlQ' = Append(ctrlQ, Pending)
    /\ nCtrl' = nCtrl + 1
    /\ UNCHANGED <<root, changes, rx, pc, plugins, files, gen, builtFrom, lastCtrl, dataQ, conns, client>>

\* one pass of `while let Ok(..) = main_port.accept()`: the oldest waiting
\* connection is read, answered and dropped; with none waiting the loop ends.
\* The accepted socket is a blocking one (only the listener was made
\* nonblocking), so read_line returns once the line or the end of the stream
\* has come, and not before
MainControl ==
    /\ pc = "control"
    /\ ctrlQ # <<>> => Head(ctrlQ) # Pending
    /\ IF ctrlQ = <<>>
       THEN /\ pc' = "data"
            /\ UNCHANGED <<ctrlQ, lastCtrl>>
       ELSE /\ pc' = "control"
            /\ ctrlQ' = Tail(ctrlQ)
            /\ lastCtrl' = [seq |-> lastCtrl.seq + 1,
                            packet |-> Head(ctrlQ),
                            cand |-> Candidate(plugins, Head(ctrlQ)),
                            blobs |-> EntryBlobs(plugins, Candidate(plugins, Head(ctrlQ))),
                            responses |-> Responses(plugins, Head(ctrlQ)),
                            closed |-> TRUE,
                            gen |-> gen]
    /\ UNCHANGED <<root, changes, rx, plugins, files, gen, builtFrom, nCtrl, dataQ, conns, client>>

(***************************************************************************)
(* Data plane: main.rs, lines 229-243, and the transfer workers.           *)
(***************************************************************************)
\* bytes one write of a transfer worker hands to the socket at most
WriteChunk == 4

\* a lookup that counts positions from one
FilesGetFromOne(table, index) ==
    IF index >= 1 /\ index <= Len(table) THEN Some(table[index]) ELSE None

\* Vec::get on the flat table: Some(blob) or None
FilesGet(table, index) == IF index < Len(table) THEN Some(table[index + 1]) ELSE None

\* a data connection: the bytes the client sent, the descriptor it took the
\* index from (None for a guessed index), and what happened to it since
NewConn(sent, desc) ==
    [sent |-> sent, desc |-> desc, state |-> "waiting", data |-> "",
     received |-> "", lookupGen |-> 0]

\* the descriptors of the response the last control connection got, each
\* with the generation that issued it and the blob it stands for
OfferedFiles ==
    IF lastCtrl.responses # <<>> /\ lastCtrl.responses[1].type = "UpdateResponse"
    THEN {[gen |-> lastCtrl.gen, file |-> lastCtrl.responses[1].required_files[j],
           blob |-> lastCtrl.blobs[j]] :
            j \in 1..Len(lastCtrl.responses[1].required_files)}
    ELSE {}

\* a client connects to the data port and sends the index of an offered file;
\* like a control connection it waits in the listener until the accept loop runs
ConnectDataOffered ==
    /\ pc = "data"
    /\ Len(conns) < MaxData
    /\ \E d \in OfferedFiles :
         conns' = Append(conns, NewConn(ToBeBytes(d.file.download_index), Some(d)))
    /\ dataQ' = Append(dataQ, Len(conns) + 1)
    /\ UNCHANGED <<root, changes, rx, pc, plugins, files, gen, builtFrom, ctrlQ, nCtrl, lastCtrl, client>>

\* a client connects to the data port and sends an index of its own, or fewer
\* than 8 bytes before it closes its side
ConnectDataGuessed ==
    /\ pc = "data"
    /\ Len(conns) < MaxData
    /\ \E i \in GuessedIndices, n \in {3, 8} :
         conns' = Append(conns, NewConn(SubSeq(ToBeBytes(i), 1, n), None))
    /\ dataQ' = Append(dataQ, Len(conns) + 1)
    /\ UNCHANGED <<root, changes, rx, pc, plugins, files, gen, builtFrom, ctrlQ, nCtrl, lastCtrl, client>>

\* a client connects to the data port, sends nothing and keeps the
\* connection open
ConnectDataSilent ==
    /\ pc = "data"
    /\ Len(conns) < MaxData
    /\ conns' = Append(conns, [NewConn(<<>>, None) EXCEPT !.state = "silent"])
    /\ dataQ' = Append(dataQ, Len(conns) + 1)
    /\ UNCHANGED <<root, changes, rx, pc, plugins, files, gen, builtFrom, ctrlQ, nCtrl, lastCtrl, client>>

\* a read that ignores the failure of read_exact and decodes the zeroed buffer
ReadIndexZeroed(sent) == IF Len(sent) = 8 THEN Some(FromBeBytes(sent)) ELSE Some(0)

\* socket.read_exact(&mut buf) and the decoding of the index: Some(index), or
\* None when the client closed before it had sent 8 bytes
ReadIndex(sent) == IF Len(sent) = 8 THEN Some(FromBeBytes(sent)) ELSE None

\* what the main loop does with an accepted data connection: a worker is
\* spawned for a blob it finds, and the socket is closed or dropped otherwise
AcceptData(c) ==
    LET index == ReadIndex(c.sent)
        file == IF index = None THEN None ELSE FilesGet(files, index[1])
    IN  IF file # None
        THEN [c EXCEPT !.state = "transfer", !.data = file[1], !.lookupGen = gen]
        ELSE [c EXCEPT !.state = "closed", !.lookupGen = gen]

\* one pass of `while let Ok(..) = download_port.accept()`; with no connection
\* waiting the loop ends, the cycle sleeps and the next cycle starts.  The
\* accepted socket is a blocking one, so read_exact returns once 8 bytes or
\* the end of the stream have come, and not before
MainData ==
    /\ pc = "data"
    /\ dataQ # <<>> => conns[Head(dataQ)].state = "waiting"
    /\ IF dataQ = <<>>
       THEN /\ pc' = "watch"
            /\ UNCHANGED <<dataQ, conns>>
       ELSE /\ pc' = "data"
            /\ dataQ' = Tail(dataQ)
            /\ conns' = [conns EXCEPT ![Head(dataQ)] = AcceptData(conns[Head(dataQ)])]
    /\ UNCHANGED <<root, changes, rx, plugins, files, gen, builtFrom, ctrlQ, nCtrl, lastCtrl, client>>

\* a write that starts from the head of the blob every time
AfterWriteAgain(c) ==
    c.received \o SubSeq(c.data, 1, IF WriteChunk < Len(c.data)
                                    THEN WriteChunk ELSE Len(c.data))

\* what a worker's connection has received after the worker's next write
AfterWrite(c) ==
    SubSeq(c.data, 1, IF Len(c.received) + WriteChunk < Len(c.data)
                      THEN Len(c.received) + WriteChunk ELSE Len(c.data))

\* a worker that borrows its blob from the current table at every write
\* in place of holding a reference of its own
WorkerBorrowing(id) ==
    /\ id <= Len(conns)
    /\ conns[id].state = "transfer"
    /\ \E c \in {[conns[id] EXCEPT
                     !.data = UnwrapOr(FilesGet(files, ReadIndex(conns[id].sent)[1]), "")]} :
         conns' = [conns EXCEPT ![id] =
             [c EXCEPT !.received = AfterWrite(c),
                       !.state = IF AfterWrite(c) = c.data THEN "closed" ELSE "transfer"]]
    /\ UNCHANGED <<root, changes, rx, pc, plugins, files, gen, builtFrom, ctrlQ, nCtrl, lastCtrl, dataQ, client>>

\* the transfer worker of connection id inside write_all: the next bytes of
\* its blob go out on its own socket, and after the last of them the worker
\* ends and its socket is dropped
Worker(id) ==
    /\ id <= Len(conns)
    /\ conns[id].state = "transfer"
    /\ conns' = [conns EXCEPT ![id] =
           [@ EXCEPT !.received = AfterWrite(conns[id]),
                     !.state = IF AfterWrite(conns[id]) = conns[id].data
                               THEN "closed" ELSE "transfer"]]
    /\ UNCHANGED <<root, changes, rx, pc, plugins, files, gen, builtFrom, ctrlQ, nCtrl, lastCtrl, dataQ, client>>

\* the workers run concurrently with the main loop and with each other
WorkerWrite == \E id \in 1..Len(conns) : Worker(id)

(***************************************************************************)
(* The watcher and the catalog refresh: main.rs, lines 133-169.            *)
(***************************************************************************)
\* the event the debouncer reports for the archives a build wrote
TarEvent == Event("Write", "plugins/Foo/B.tar")

\* the channel after a build that created tars archive files
AfterBuild(chan, tars) ==
    IF tars > 0 /\ TarEvent \notin {chan[k] : k \in 1..Len(chan)} /\ Len(chan) < MaxRx
    THEN Append(chan, TarEvent) ELSE chan

\* something under the plugin root changes and the watcher reports it, or
\* the watcher reports an error; the loop looks at the channel and at the
\* disk only in its first step, so the change is placed before that step
DiskChange ==
    /\ pc = "watch"
    /\ changes < MaxChanges
    /\ Len(rx) < MaxRx
    /\ changes' = changes + 1
    /\ \E event \in Events :
         /\ rx' = Append(rx, event)
         /\ IF event.kind = "Error" THEN root' = root ELSE root' \in Roots
    /\ UNCHANGED <<pc, plugins, files, gen, builtFrom, ctrlQ, nCtrl, lastCtrl, dataQ, conns, client>>

\* whether the event is one the loop skips with `continue`
IsTarEvent(event) ==
    event.kind \in {"Create", "Write", "NoticeWrite"} /\ Extension(event.path) = "tar"

\* a refresh that keeps the old table and lets the counter run on after it
MainWatchAppending ==
    /\ pc = "watch"
    /\ IF rx = <<>>
       THEN /\ pc' = "control"
            /\ UNCHANGED <<rx, plugins, files, gen, builtFrom>>
       ELSE IF Head(rx).kind = "Error"
       THEN /\ pc' = "control"
            /\ rx' = Tail(rx)
            /\ UNCHANGED <<plugins, files, gen, builtFrom>>
       ELSE IF IsTarEvent(Head(rx))
       THEN /\ pc' = "watch"
            /\ rx' = Tail(rx)
            /\ UNCHANGED <<plugins, files, gen, builtFrom>>
       ELSE \E g \in {get(root)} :
                /\ rx' = AfterBuild(Tail(rx), g.tars)
                /\ IF g.status = "ok"
                   THEN /\ pc' = "control"
                        /\ plugins' = ToPlugins(g.plugins, 1, Len(files))
                        /\ files' = files \o FlatFiles(plugins', 1)
                        /\ gen' = gen + 1
                        /\ builtFrom' = root
                   ELSE /\ pc' = "exited"
                        /\ plugins' = <<>>
                        /\ UNCHANGED <<files, gen, builtFrom>>
    /\ UNCHANGED <<root, changes, ctrlQ, nCtrl, lastCtrl, dataQ, conns, client>>

\* a refresh that replaces the entry list and leaves the flat table as it was
MainWatchEntriesOnly ==
    /\ pc = "watch"
    /\ IF rx = <<>>
       THEN /\ pc' = "control"
            /\ UNCHANGED <<rx, plugins, files, gen, builtFrom>>
       ELSE IF Head(rx).kind = "Error"
       THEN /\ pc' = "control"
            /\ rx' = Tail(rx)
            /\ UNCHANGED <<plugins, files, gen, builtFrom>>
       ELSE IF IsTarEvent(Head(rx))
       THEN /\ pc' = "watch"
            /\ rx' = Tail(rx)
            /\ UNCHANGED <<plugins, files, gen, builtFrom>>
       ELSE \E built \in {setup_plugin_ports(root)} :
                /\ rx' = AfterBuild(Tail(rx), built.tars)
                /\ IF built.status = "ok"
                   THEN /\ pc' = "control"
                        /\ plugins' = built.plugins
                        /\ gen' = gen + 1
                        /\ builtFrom' = root
                        /\ UNCHANGED files
                   ELSE /\ pc' = "exited"
                        /\ plugins' = <<>>
                        /\ UNCHANGED <<files, gen, builtFrom>>
    /\ UNCHANGED <<root, changes, ctrlQ, nCtrl, lastCtrl, dataQ, conns, client>>

\* rx.try_recv() and the match on its result
MainWatch ==
    /\ pc = "watch"
    /\ IF rx = <<>>
       THEN /\ pc' = "control"
            /\ UNCHANGED <<rx, plugins, files, gen, builtFrom>>
       ELSE IF Head(rx).kind = "Error"
       THEN /\ pc' = "control"
            /\ rx' = Tail(rx)
            /\ UNCHANGED <<plugins, files, gen, builtFrom>>
       ELSE IF IsTarEvent(Head(rx))
       THEN /\ pc' = "watch"
            /\ rx' = Tail(rx)
            /\ UNCHANGED <<plugins, files, gen, builtFrom>>
       ELSE \E built \in {setup_plugin_ports(root)} :
                /\ rx' = AfterBuild(Tail(rx), built.tars)
                /\ IF built.status = "ok"
                   THEN /\ pc' = "control"
                        /\ plugins' = built.plugins
                        /\ files' = built.files
                        /\ gen' = gen + 1
                        /\ builtFrom' = root
                   ELSE /\ pc' = "exited"
                        /\ plugins' = <<>>
                        /\ UNCHANGED <<files, gen, builtFrom>>
    /\ UNCHANGED <<root, changes, ctrlQ, nCtrl, lastCtrl, dataQ, conns, client>>

(***************************************************************************)
(* The client library: skyline-update/src/lib.rs.  A run of                *)
(* custom_check_update talks to whatever server answers at the address it  *)
(* is given, so what it reads and how its calls end are inputs.            *)
(***************************************************************************)
\* the entries of an archive, in the order they were appended: [name, data]
RECURSIVE TarEntries(_)
TarEntries(tar) ==
    IF CharAt(tar, 1) # "[" THEN <<>>
    ELSE LET eq == Find(tar, "=")
             close == Find(tar, "]")
         IN  <<[name |-> SubSeq(tar, 2, eq - 1), data |-> SubSeq(tar, eq + 1, close - 1)]>>
             \o TarEntries(SubSeq(tar, close + 1, Len(tar)))

\* the path an installed archive is extracted to: the path without its last
\* four characters
ExtractToPath(path) == SubSeq(path, 1, Len(path) - 4)

\* tar::Archive::unpack: the files written below dst, one for every entry
Unpack(tar, dst) ==
    {[path |-> Join(dst, TarEntries(tar)[k].name), data |-> TarEntries(tar)[k].data] :
        k \in 1..Len(TarEntries(tar))}

\* an install location of a variant the client does not know
OtherLocation(p) == [tag |-> "Other", path |-> p]

\* a wire file descriptor
WireFile(size, index, location) ==
    [size |-> size, download_index |-> index, install_location |-> location]

\* an Update response that offers the files fs
Offer(fs) ==
    [type |-> "UpdateResponse", code |-> "Update", update_plugin |-> TRUE,
     plugin_name |-> "Foo", new_plugin_version |-> "1.0.0", required_files |-> fs]

\* what is read from a control connection that carries no response: nothing
\* (the server closed without a reply, or the read failed) or other text
Unreadable(text) == [type |-> "", text |-> text]

\* the responses the modelled server gives to the client's request for Foo
ServerReplies ==
    UNION {UNION {{Responses(built.plugins, UpdateRequest("Foo", version, Some(beta)))[1] :
                     version \in {"0.9.0", "2.0.0", "x"}, beta \in BOOLEAN} :
                  built \in {b \in {setup_plugin_ports(r)} : b.status = "ok"}} :
           r \in Roots}

\* what the client may read from the control connection
Wires ==
    ServerReplies
    \cup { Offer(<<WireFile(2, 0, AbsolutePath("sd:/a.nro")),
                   WireFile(0, 1, OtherLocation("rom:/b.nro")),
                   WireFile(3, 2, AbsolutePath("sd:/c.nro"))>>),
           Offer(<<WireFile(2, 0, AbsolutePath("sd:/exefs/main")),
                   WireFile(2, 1, AbsolutePath("sd:/a.nro"))>>),
           Offer(<<>>),
           Unreadable(""), Unreadable("oops") }

\* what the client may read from a data connection before the stream ends
Payloads == {"", "ab", "[B/a=x]."}

\* serde_json::from_str::<UpdateResponse>: Some(response) or None
ParseResponse(text) == IF text.type = "UpdateResponse" THEN Some(text) ELSE None

\* a match that goes on for every code but NoUpdate
OffersUpdateUnlessNone(response) == response.code # "NoUpdate"

\* the arm of `match response.code` that goes on to the installer
OffersUpdate(response) == response.code = "Update"

\* the files from the last one backwards
FileAtReversed(response, k) ==
    response.required_files[Len(response.required_files) + 1 - k]

\* `for file in &response.required_files`: the file of the k-th pass
FileAt(response, k) == response.required_files[k]

\* a run before its start: where it stands, the response it parsed, what
\* should_update said, the pass of the loop over the files it is in, the data
\* connections it opened, the calls of install_file (file, payload, outcome),
\* the value it returned, and what ended it
Idle ==
    [pc |-> "idle", response |-> None, asked |-> "unasked", k |-> 1, opened |-> 0,
     passed |-> <<>>, result |-> None, ended_by |-> ""]

\* the run returns value
Returned(c, value, why) ==
    [c EXCEPT !.pc = "returned", !.result = Some(value), !.ended_by = why]

\* the run panics in an unwrap
Aborted(c, why) == [c EXCEPT !.pc = "aborted", !.ended_by = why]

\* custom_check_update after the response was read
AfterResponse(c, parsed) ==
    IF parsed = None THEN Returned(c, FALSE, "parse")
    ELSE IF OffersUpdate(parsed[1])
         THEN [c EXCEPT !.pc = "ask", !.response = parsed]
         ELSE Returned([c EXCEPT !.response = parsed], FALSE, "code")

\* custom_check_update up to the match on the response's code: the control
\* connection fails, or the request is sent and the answer read and parsed
ClientCheck ==
    /\ client.pc = "idle"
    /\ \/ client' = Returned(client, FALSE, "control")
       \/ \E text \in Wires : client' = AfterResponse(client, ParseResponse(text))
    /\ UNCHANGED serverVars

\* installer.should_update(&response)
ClientAsk ==
    /\ client.pc = "ask"
    /\ \E yes \in BOOLEAN :
         client' = IF yes THEN [client EXCEPT !.pc = "update", !.asked = "yes"]
                   ELSE Returned([client EXCEPT !.asked = "no"], FALSE, "declined")
    /\ UNCHANGED serverVars

\* what follows a successful install_file: the unwraps on the path's
\* extension, on the opening of an archive, and on the end of the connection
AfterInstall(c, path, open_ok, shutdown_ok) ==
    IF Extension(path) = "" THEN Aborted(c, "extension")
    ELSE IF Extension(path) = "tar" /\ ~open_ok THEN Aborted(c, "open")
    ELSE IF ~shutdown_ok THEN Aborted(c, "shutdown")
    ELSE [c EXCEPT !.k = c.k + 1]

\* one pass of the loop of update over the file `file`
FileStep(c, file, connect_ok, read_ok, payload, install_ok, open_ok, shutdown_ok) ==
    IF ~connect_ok THEN Returned(c, FALSE, "connect")
    ELSE IF ~read_ok THEN Returned([c EXCEPT !.opened = c.opened + 1], FALSE, "read")
    ELSE IF file.install_location.tag # "AbsolutePath"
    THEN Returned([c EXCEPT !.opened = c.opened + 1], FALSE, "location")
    ELSE IF ~install_ok
    THEN Returned([c EXCEPT !.opened = c.opened + 1,
                            !.passed = Append(c.passed, [file |-> file, payload |-> payload,
                                                         ok |-> FALSE])],
                  FALSE, "install")
    ELSE AfterInstall([c EXCEPT !.opened = c.opened + 1,
                                !.passed = Append(c.passed, [file |-> file, payload |-> payload,
                                                             ok |-> TRUE])],
                      file.install_location.path, open_ok, shutdown_ok)

\* update: the pass for the next file, with the outcomes of its calls
ClientFile ==
    /\ client.pc = "update"
    /\ client.k <= Len(client.response[1].required_files)
    /\ \E connect_ok, read_ok, install_ok, open_ok, shutdown_ok \in BOOLEAN :
         \E payload \in Payloads :
            client' = FileStep(client, FileAt(client.response[1], client.k), connect_ok,
                               read_ok, payload, install_ok, open_ok, shutdown_ok)
    /\ UNCHANGED serverVars

\* update: the loop is through and the run returns true
ClientDone ==
    /\ client.pc = "update"
    /\ client.k > Len(client.response[1].required_files)
    /\ client' = Returned(client, TRUE, "")
    /\ UNCHANGED serverVars

(***************************************************************************)
(* The system.                                                             *)
(***************************************************************************)
\* main up to the loop: the first generation is built from a plugin root that
\* setup_plugin_ports accepts
Init ==
    /\ \E r \in Roots : \E built \in {setup_plugin_ports(r)} :
         /\ built.status = "ok"
         /\ root = r
         /\ rx = AfterBuild(<<>>, built.tars)
         /\ plugins = built.plugins
         /\ files = built.files
    /\ changes = 0
    /\ pc = "watch"
    /\ gen = 1
    /\ builtFrom = root
    /\ ctrlQ = <<>>
    /\ nCtrl = 0
    /\ lastCtrl = NoCtrl
    /\ dataQ = <<>>
    /\ conns = <<>>
    /\ client = Idle

\* main before its first build, with the plugin root in any state
ScanInit ==
    /\ root \in ScanRoots
    /\ rx = <<>>
    /\ plugins = <<>>
    /\ files = <<>>
    /\ changes = 0
    /\ pc = "start"
    /\ gen = 0
    /\ builtFrom = root
    /\ ctrlQ = <<>>
    /\ nCtrl = 0
    /\ lastCtrl = NoCtrl
    /\ dataQ = <<>>
    /\ conns = <<>>
    /\ client = Idle

\* `let (mut plugins, mut files) = setup_plugin_ports()?`: the first build.
\* An error returns from main, a panic ends the process
MainStart ==
    /\ pc = "start"
    /\ \E built \in {setup_plugin_ports(root)} :
         /\ rx' = AfterBuild(rx, built.tars)
         /\ IF built.status = "ok"
            THEN /\ pc' = "watch"
                 /\ plugins' = built.plugins
                 /\ files' = built.files
                 /\ gen' = 1
            ELSE /\ pc' = IF built.status = "panic" THEN "panicked" ELSE "exited"
                 /\ UNCHANGED <<plugins, files, gen>>
    /\ UNCHANGED <<root, changes, builtFrom, ctrlQ, nCtrl, lastCtrl, dataQ, conns, client>>

\* the first build on its own
ScanSpec == ScanInit /\ [][MainStart]_vars

Next ==
    \/ DiskChange
    \/ MainWatch
    \/ ConnectControl
    \/ ConnectControlSilent
    \/ MainControl
    \/ ConnectDataOffered
    \/ ConnectDataGuessed
    \/ ConnectDataSilent
    \/ MainData
    \/ WorkerWrite

Spec == Init /\ [][Next]_vars

\* every spawned worker is a thread of its own, which the operating system
\* keeps scheduling while it has bytes to write
WorkerFairness == \A id \in 1..MaxData : WF_vars(Worker(id))

\* the main thread goes from one phase of its cycle to the next whenever the
\* call it is in returns
MainFairness ==
    /\ WF_vars(MainWatch)
    /\ WF_vars(MainControl)
    /\ WF_vars(MainData)

\* the server with its workers scheduled; what the main thread, the clients
\* and the disk do is left open
TransferSpec == Spec /\ WorkerFairness

\* the server with all of its threads scheduled; what clients and the disk do
\* is left to them
FairSpec == Spec /\ MainFairness /\ WorkerFairness

\* a run of the client library
ClientNext ==
    \/ ClientCheck
    \/ ClientAsk
    \/ ClientFile
    \/ ClientDone

ClientSpec == Init /\ [][ClientNext]_vars

(***************************************************************************)
(* Properties.                                                             *)
(*                                                                         *)
(* The properties of the control plane speak about the connection the      *)
(* server handled last, while the generation that answered it is still     *)
(* the current one (plugins and builtFrom are then the catalog and the     *)
(* disk contents the answer was computed from).                            *)
(***************************************************************************)
Handled == lastCtrl.seq > 0

Fresh == Handled /\ lastCtrl.gen = gen /\ pc # "exited"

Req == lastCtrl.packet

Decodable == Req.variant \in {"Update", "Metadata"}

IsUpdateReq == Req.variant = "Update"

BetaAllowed == Req.beta = Some(TRUE)

\* the entries of the current catalog a request for name may resolve to
Eligible(name, betaAllowed) ==
    {k \in 1..Len(plugins) : plugins[k].name = name /\ (betaAllowed \/ ~plugins[k].beta)}

\* the client's version, when it parses
ClientVersion == ParseVersion(Req.plugin_version)

\* the one response of the last connection
Reply == lastCtrl.responses[1]

OneReply(code) ==
    /\ Len(lastCtrl.responses) = 1
    /\ Reply.type = "UpdateResponse"
    /\ Reply.code = code

\* the directory on disk the catalog entry p was loaded from
SourceDir(p) ==
    CHOOSE d \in {builtFrom.entries[k] : k \in 1..Len(builtFrom.entries)} :
        /\ d.is_dir /\ d.toml = "ok" /\ d.doc.name = p.name
        /\ ParseVersion(d.doc.version) = Some(p.plugin_version)

\* C1: a check-update request whose version parses and is strictly lower than
\* the candidate's is answered with code Update, a version string that reads
\* back as the candidate's version, and one descriptor per catalog file of the
\* candidate, in catalog order: the declared files of the descriptor on disk,
\* then one archive per folder bundle; each descriptor carries the blob's
\* length, the file's index in the flat table and its install location.
C1_UpdateReply ==
    (/\ Fresh /\ IsUpdateReq /\ lastCtrl.cand # 0 /\ ClientVersion # None
     /\ VersionLess(ClientVersion[1], plugins[lastCtrl.cand].plugin_version))
    => LET p == plugins[lastCtrl.cand]
           doc == SourceDir(p).doc
           nf == Len(doc.files)
           folders == UnwrapOr(doc.folders, <<>>)
           rf == Reply.required_files
       IN  /\ OneReply("Update")
           /\ ParseVersion(Reply.new_plugin_version) = Some(p.plugin_version)
           /\ Len(rf) = nf + Len(folders)
           /\ Len(rf) = Len(p.files)
           /\ \A j \in 1..Len(rf) :
                /\ rf[j].download_index = p.files[j].index
                /\ rf[j].download_index < Len(files)
                /\ rf[j].size = Len(files[rf[j].download_index + 1])
                /\ files[rf[j].download_index + 1] = p.files[j].data
                /\ rf[j].install_location = p.files[j].install
                /\ IF j <= nf
                   THEN /\ rf[j].install_location = doc.files[j].install_location
                        /\ rf[j].size = Len(doc.files[j].data[1])
                   ELSE rf[j].install_location =
                            AbsolutePath(folders[j - nf].install_root_location.path \o ".tar")

\* C1's case: an Update reply that offers a declared file and a bundle archive
C1_Witness ==
    /\ Fresh /\ IsUpdateReq /\ ClientVersion # None
    /\ OneReply("Update")
    /\ Len(Reply.required_files) = 2
    /\ Reply.required_files[2].install_location = AbsolutePath("sd:/B.tar")
    /\ Reply.required_files[2].download_index = 2

\* C2: a check-update request whose version is greater than or equal to the
\* candidate's version is answered with code NoUpdate and no files.
C2_NoUpdate ==
    (/\ Fresh /\ IsUpdateReq /\ lastCtrl.cand # 0 /\ ClientVersion # None
     /\ VersionLeq(plugins[lastCtrl.cand].plugin_version, ClientVersion[1]))
    => /\ OneReply("NoUpdate")
       /\ Reply.required_files = <<>>

\* C2's case: the client already has exactly the candidate's version
C2_Witness ==
    /\ Fresh /\ IsUpdateReq /\ lastCtrl.cand # 0 /\ ClientVersion # None
    /\ ClientVersion[1] = plugins[lastCtrl.cand].plugin_version
    /\ OneReply("NoUpdate")

\* C3 as claimed: every check-update request with an unparsable version is
\* answered with code InvalidRequest, whatever the plugin name.
C3_Original ==
    (Fresh /\ IsUpdateReq /\ ClientVersion = None) => OneReply("InvalidRequest")

\* C3 amended: a check-update request with an unparsable version is answered
\* with InvalidRequest when an entry is eligible for its plugin name, and with
\* PluginNotFound when none is.
C3_Amended ==
    (Fresh /\ IsUpdateReq /\ ClientVersion = None)
    => IF Eligible(Req.plugin_name, BetaAllowed) # {}
       THEN OneReply("InvalidRequest")
       ELSE OneReply("PluginNotFound")

\* C3's case: an unparsable version sent for a plugin the catalog holds
C3_Witness ==
    /\ Fresh /\ IsUpdateReq /\ ClientVersion = None
    /\ Eligible(Req.plugin_name, BetaAllowed) # {}
    /\ OneReply("InvalidRequest")

\* C4 as claimed: every request, check-update or metadata, that names a plugin
\* with no eligible entry in the current catalog is answered PluginNotFound.
C4_NotFoundReply ==
    (Fresh /\ Decodable /\ Eligible(Req.plugin_name, BetaAllowed) = {})
    => OneReply("PluginNotFound")

\* the files of beta entries, by their download indices
BetaIndices ==
    UNION {{plugins[k].files[j].index : j \in 1..Len(plugins[k].files)} :
             k \in {i \in 1..Len(plugins) : plugins[i].beta}}

\* C5: a request with beta false or absent never resolves to an entry flagged
\* beta: with no non-beta entry of the name nothing is selected (a check-update
\* request gets PluginNotFound), otherwise the highest non-beta entry is, and
\* an Update reply offers no file of a beta entry.
C5_NoBetaUnlessAsked ==
    (Fresh /\ Decodable /\ ~BetaAllowed)
    => LET stable == {k \in 1..Len(plugins) :
                        plugins[k].name = Req.plugin_name /\ ~plugins[k].beta}
       IN  /\ lastCtrl.cand # 0 => ~plugins[lastCtrl.cand].beta
           /\ stable = {} => /\ lastCtrl.cand = 0
                             /\ IsUpdateReq => OneReply("PluginNotFound")
           /\ stable # {} =>
                /\ lastCtrl.cand \in stable
                /\ \A j \in stable : VersionLeq(plugins[j].plugin_version,
                                                plugins[lastCtrl.cand].plugin_version)
           /\ \A r \in {lastCtrl.responses[i] : i \in 1..Len(lastCtrl.responses)} :
                IF r.type = "UpdateResponse"
                THEN \A j \in 1..Len(r.required_files) :
                        r.required_files[j].download_index \notin BetaIndices
                ELSE \E k \in stable : r.metadata = plugins[k].metadata

\* C5's case: a non-beta request is answered with an update to a non-beta
\* entry although a beta entry of the same name has a higher version
C5_Witness ==
    /\ Fresh /\ IsUpdateReq /\ ~BetaAllowed /\ lastCtrl.cand # 0
    /\ OneReply("Update")
    /\ \E k \in 1..Len(plugins) :
         /\ plugins[k].beta /\ plugins[k].name = Req.plugin_name
         /\ VersionLess(plugins[lastCtrl.cand].plugin_version, plugins[k].plugin_version)

\* C6: a request resolves to at most one entry; when entries pass the filter
\* the selected one passes it too and no entry that passes it has a higher
\* version, and the reply is computed from the selected entry.
C6_MaxSelected ==
    (Fresh /\ Decodable)
    => LET E == Eligible(Req.plugin_name, BetaAllowed)
       IN  /\ Len(lastCtrl.responses) <= 1
           /\ IF E = {} THEN lastCtrl.cand = 0
              ELSE /\ lastCtrl.cand \in E
                   /\ \A j \in E : VersionLeq(plugins[j].plugin_version,
                                              plugins[lastCtrl.cand].plugin_version)
                   /\ Len(lastCtrl.responses) = 1
                   /\ IF IsUpdateReq
                      THEN Reply.code = "Update" =>
                             ParseVersion(Reply.new_plugin_version)
                                 = Some(plugins[lastCtrl.cand].plugin_version)
                      ELSE Reply = [type |-> "PluginMetadata",
                                    metadata |-> plugins[lastCtrl.cand].metadata]

\* C6's case: several entries pass the filter and the highest is not the last
C6_Witness ==
    /\ Fresh /\ Decodable
    /\ Cardinality(Eligible(Req.plugin_name, BetaAllowed)) >= 2
    /\ lastCtrl.cand = 1
    /\ Len(lastCtrl.responses) = 1

\* C7 as claimed: every handled control connection got exactly one response
\* and was then closed by the server.
C7_OneResponse == Handled => (Len(lastCtrl.responses) = 1 /\ lastCtrl.closed)

\* C8: a line that does not decode as a request is answered InvalidRequest,
\* and the step that answers it leaves the main loop in its accept loop and
\* the catalog as it was.
C8_GarbageAnswered ==
    [][(lastCtrl'.seq = lastCtrl.seq + 1
        /\ lastCtrl'.packet.variant \notin {"Update", "Metadata"})
       => /\ lastCtrl'.responses = <<PlainResponse("InvalidRequest")>>
          /\ lastCtrl'.closed
          /\ pc = "control" /\ pc' = "control"
          /\ plugins' = plugins /\ files' = files /\ gen' = gen]_vars

\* C8's case: an empty line was answered
C8_Witness ==
    /\ Handled /\ Req.variant = "" /\ OneReply("InvalidRequest")
    /\ pc = "control" /\ plugins # <<>>

\* C9: a data connection that sent the index of an offered file, looked up
\* while the generation that made the offer was current, is served that
\* file's blob, whose length is the descriptor's size: what it has received
\* is a prefix of the blob at every moment and the whole blob at the close.
C9_OfferedDownload ==
    \A id \in 1..Len(conns) :
        LET c == conns[id]
        IN  (c.desc # None /\ c.state # "waiting" /\ c.lookupGen = c.desc[1].gen)
            => /\ c.data = c.desc[1].blob
               /\ Len(c.desc[1].blob) = c.desc[1].file.size
               /\ c.received = SubSeq(c.desc[1].blob, 1, Len(c.received))
               /\ c.state = "closed" => c.received = c.desc[1].blob

\* C9's case: the archive at index 2 was downloaded in full
C9_Witness ==
    \E id \in 1..Len(conns) :
        /\ conns[id].desc # None /\ conns[id].state = "closed"
        /\ conns[id].lookupGen = conns[id].desc[1].gen
        /\ conns[id].desc[1].file.download_index = 2
        /\ conns[id].received = "[B/a=x]."

\* C10: the step that accepts a data connection whose 8 bytes are not the
\* index of a position of the current flat table, or that sent fewer than 8
\* bytes, closes it with nothing sent, spawns no worker, and leaves the main
\* loop in its accept loop and the catalog as it was.
C10_BadIndex ==
    [][(/\ pc = "data" /\ dataQ # <<>> /\ dataQ' = Tail(dataQ)
        /\ \A i \in 0..(Len(files) - 1) : conns[Head(dataQ)].sent # ToBeBytes(i))
       => /\ conns'[Head(dataQ)].state = "closed"
          /\ conns'[Head(dataQ)].received = ""
          /\ conns'[Head(dataQ)].data = ""
          /\ pc' = "data"
          /\ plugins' = plugins /\ files' = files /\ gen' = gen]_vars

\* C10's case: the index just beyond the table's last position was refused
C10_Witness ==
    \E id \in 1..Len(conns) :
        /\ conns[id].state = "closed" /\ conns[id].lookupGen = gen
        /\ conns[id].sent = ToBeBytes(Len(files))
        /\ conns[id].received = ""
        /\ pc = "data"

\* the data connections that presented the index of an offered file after the
\* generation that issued the offer had been replaced
Stale(c) == c.desc # None /\ c.state # "waiting" /\ c.lookupGen # c.desc[1].gen

\* C11 as claimed: a data connection that presents an offered index after the
\* generation that issued it was replaced is closed with no bytes, and is
\* never served a blob of the new generation.
C11_StaleIndex ==
    \A id \in 1..Len(conns) :
        Stale(conns[id])
        => /\ conns[id].state = "closed"
           /\ conns[id].data = ""
           /\ conns[id].received = ""

\* the position of the flat table a connection asked for, when it sent one
Asked(c) == ReadIndex(c.sent)

\* C12: downloads that are in progress at the same time do not disturb each
\* other.  The accept of a connection with a valid index hands its worker the
\* blob at that index; a step of a worker changes its own connection only and
\* adds bytes of its own blob only, so what a connection has received is a
\* prefix of its blob at every moment; and every transfer that has begun
\* ends with the whole blob received, however the workers and the main loop
\* interleave.
C12_ConcurrentDownloads ==
    /\ [][/\ (pc = "data" /\ dataQ # <<>> /\ dataQ' = Tail(dataQ)
              /\ Asked(conns[Head(dataQ)]) # None
              /\ Asked(conns[Head(dataQ)])[1] < Len(files))
             => /\ conns'[Head(dataQ)].state = "transfer"
                /\ conns'[Head(dataQ)].data = files[Asked(conns[Head(dataQ)])[1] + 1]
                /\ conns'[Head(dataQ)].received = ""
          /\ \A id \in 1..Len(conns) :
                conns[id].state # "waiting"
                => /\ conns'[id].data = conns[id].data
                   /\ conns'[id].received =
                          SubSeq(conns[id].data, 1, Len(conns'[id].received))
                   /\ Len(conns'[id].received) >= Len(conns[id].received)
                   /\ conns'[id].state = "closed" => conns'[id].received = conns[id].data
                   /\ conns[id].state = "closed" => conns'[id] = conns[id]]_vars
    /\ \A id \in 1..MaxData :
          (id <= Len(conns) /\ conns[id].state = "transfer")
          ~> (/\ id <= Len(conns) /\ conns[id].state = "closed"
              /\ conns[id].received = conns[id].data)

\* C12's case: the transfer of the blob at index 1 began and ended while the
\* transfer of the blob at index 2, accepted before it, was half done
C12_Witness ==
    /\ Len(conns) = 2
    /\ Asked(conns[1]) = Some(2) /\ Asked(conns[2]) = Some(1)
    /\ conns[1].lookupGen = conns[2].lookupGen
    /\ conns[1].state = "transfer" /\ conns[1].received = "[B/a"
    /\ conns[1].data = "[B/a=x]."
    /\ conns[2].state = "closed" /\ conns[2].received = "ab"

\* a download of an offered file that was looked up in the generation that
\* offered it
InOwnGeneration(c) ==
    c.desc # None /\ c.state # "waiting" /\ c.lookupGen = c.desc[1].gen

\* C13: a transfer keeps the blob of the generation it was looked up in.  A
\* step that replaces the catalog, or ends the main loop, leaves every
\* connection as it was; a download looked up in the generation that offered
\* it has received a prefix of the offered blob at every moment, also after
\* the catalog was replaced, and the whole of it once closed; and with the
\* workers scheduled every such transfer ends with the whole blob.
C13_TransferSurvivesSwap ==
    /\ [][(gen' # gen \/ files' # files \/ plugins' # plugins) => conns' = conns]_vars
    /\ [](\A id \in 1..Len(conns) :
            InOwnGeneration(conns[id])
            => /\ conns[id].data = conns[id].desc[1].blob
               /\ conns[id].received =
                      SubSeq(conns[id].desc[1].blob, 1, Len(conns[id].received))
               /\ conns[id].state = "closed"
                      => conns[id].received = conns[id].desc[1].blob)
    /\ \A id \in 1..MaxData :
          (/\ id <= Len(conns) /\ InOwnGeneration(conns[id])
           /\ conns[id].state = "transfer" /\ conns[id].lookupGen < gen)
          ~> (/\ id <= Len(conns) /\ InOwnGeneration(conns[id])
              /\ conns[id].state = "closed"
              /\ conns[id].received = conns[id].desc[1].blob)

\* C13's case: the archive is half sent, and the catalog that has replaced
\* its generation holds no such blob
C13_Witness ==
    \E id \in 1..Len(conns) :
        /\ InOwnGeneration(conns[id])
        /\ conns[id].state = "transfer" /\ conns[id].received = "[B/a"
        /\ conns[id].desc[1].blob = "[B/a=x]."
        /\ conns[id].lookupGen < gen
        /\ \A i \in 1..Len(files) : files[i] # "[B/a=x]."

\* C14: a refresh that reads the plugin root as the previous build read it
\* yields the catalog that build yielded: the same entries in the same order
\* with the same download indices and metadata index fields, and the same
\* flat table.
C14_RebuildDeterministic ==
    [][(gen' = gen + 1 /\ root = builtFrom)
       => (plugins' = plugins /\ files' = files)]_vars

\* C14's case: generation 1 offered the files at indices 1 and 2, the root
\* was rebuilt unchanged, and generation 2 answers the same request alike
C14_Witness ==
    /\ gen = 2 /\ Handled /\ lastCtrl.gen = 1 /\ pc # "exited"
    /\ OneReply("Update")
    /\ Len(Reply.required_files) = 2
    /\ Reply.required_files[2].download_index = 2
    /\ builtFrom = ReadableRoot(<<Bar, Foo1, Foo2Beta, NotDir>>)
    /\ Responses(plugins, Req) = lastCtrl.responses
    /\ \A j \in 1..2 : files[Reply.required_files[j].download_index + 1] = lastCtrl.blobs[j]

\* the indices entry k's metadata advertises for its images and its changelog
MetadataIndices(k) ==
    {plugins[k].metadata.images_index + j - 1 : j \in 1..Len(plugins[k].metadata_files)}

\* C15 as claimed: in the current generation every file of every entry sits
\* in the flat table at its index; the images and the changelog of an entry
\* sit in the flat table at images_index .. images_index + image_count - 1
\* and at changelog_index, after the entry's files; and no index advertised
\* for a metadata blob is the index of a file of any entry.
C15_IndexLayout ==
    \A k \in 1..Len(plugins) :
        LET p == plugins[k]
        IN  /\ \A j \in 1..Len(p.files) :
                 /\ p.files[j].index < Len(files)
                 /\ files[p.files[j].index + 1] = p.files[j].data
            /\ p.metadata.changelog_index = p.metadata.images_index + p.metadata.image_count
            /\ \A j \in 1..Len(p.metadata_files) :
                 /\ p.metadata.images_index + j - 1 < Len(files)
                 /\ files[p.metadata.images_index + j] = p.metadata_files[j]
            /\ \A o \in 1..Len(plugins) : \A j \in 1..Len(plugins[o].files) :
                 plugins[o].files[j].index \notin MetadataIndices(k)

(***************************************************************************)
(* Properties of the client's run.                                         *)
(***************************************************************************)
\* the run is over: it returned or it panicked
Ended == client.pc \in {"returned", "aborted"}

\* the files of the response the run parsed
Required == IF client.response = None THEN <<>> ELSE client.response[1].required_files

\* every file of the offer was downloaded and install_file succeeded for it
AllInstalled ==
    /\ Len(client.passed) = Len(Required)
    /\ client.opened = Len(Required)
    /\ \A j \in 1..Len(Required) :
         client.passed[j].file = Required[j] /\ client.passed[j].ok

\* C16 as claimed: the update run returns true only if every file of the
\* offer was downloaded and installed; a failed data connection, a failed
\* read, a failed install_file and an unsupported install location make it
\* return false; and a run that has begun to update ends in no other way
\* than by one of these two.
C16_UpdateResult ==
    /\ client.result = Some(TRUE) => AllInstalled
    /\ client.ended_by \in {"connect", "read", "install", "location"}
           => client.result = Some(FALSE)
    /\ (Ended /\ client.asked = "yes")
           => \/ client.result = Some(TRUE) /\ AllInstalled
              \/ client.result = Some(FALSE)

\* C17: the client takes the files one at a time in the order of the
\* response.  The calls of install_file are for the first files of the
\* response, in order; every call before the last one succeeded; a data
\* connection is opened for the next file only; a step adds at most one
\* connection and one call and takes none back; and after the run has ended,
\* by a failure or otherwise, nothing more is downloaded or installed.
C17_PrefixInOrder ==
    /\ [](/\ Len(client.passed) <= Len(Required)
          /\ \A j \in 1..Len(client.passed) :
               /\ client.passed[j].file = Required[j]
               /\ j < Len(client.passed) => client.passed[j].ok
          /\ client.opened \in {Len(client.passed), Len(client.passed) + 1}
          /\ (client.pc = "update" => /\ client.k = client.opened + 1
                                      /\ client.opened = Len(client.passed)
                                      /\ \A j \in 1..Len(client.passed) : client.passed[j].ok)
          /\ (client.result = Some(FALSE) /\ client.passed # <<>>)
               => \A j \in 1..(Len(client.passed) - 1) : client.passed[j].ok)
    /\ [][/\ client'.opened \in {client.opened, client.opened + 1}
          /\ Len(client'.passed) \in {Len(client.passed), Len(client.passed) + 1}
          /\ SubSeq(client'.passed, 1, Len(client.passed)) = client.passed
          /\ Ended => client' = client]_vars

\* C17's case: the first of three files is installed, the second fails on
\* its install location, and the third is never asked for
C17_Witness ==
    /\ Len(Required) = 3
    /\ client.result = Some(FALSE) /\ client.ended_by = "location"
    /\ client.opened = 2
    /\ Len(client.passed) = 1 /\ client.passed[1].ok
    /\ client.passed[1].file = Required[1]

C19_NoBlocking ==
    \A id \in 1..MaxData :
        (id <= Len(conns) /\ conns[id].state = "waiting")
        ~> (pc = "exited" \/ (id <= Len(conns) /\ conns[id].state # "waiting"))

(***************************************************************************)
(* The watcher's events.                                                   *)
(***************************************************************************)
\* a step of the main loop that takes an event from the channel
TakesEvent == pc = "watch" /\ rx # <<>> /\ changes' = changes /\ conns' = conns /\ rx' # rx

\* the step builds no catalog: the generation stays and main goes on
NoRebuild ==
    /\ gen' = gen /\ plugins' = plugins /\ files' = files /\ builtFrom' = builtFrom
    /\ pc' # "exited"

\* the step builds the catalog once from the disk and swaps it in
RebuildAndSwap ==
    /\ gen' = gen + 1
    /\ builtFrom' = root
    /\ \E built \in {setup_plugin_ports(root)} :
         built.status = "ok" /\ plugins' = built.plugins /\ files' = built.files

\* C20 as claimed: a step that takes an event on a path with the archive
\* extension never rebuilds, an error event neither, and a step that takes
\* any other event rebuilds the catalog once and swaps it in.
C20_ArchiveEventsIgnored ==
    [][TakesEvent
       => IF Head(rx).kind = "Error" \/ Extension(Head(rx).path) = "tar"
          THEN NoRebuild
          ELSE RebuildAndSwap]_vars

\* the step takes an event that asks for a rebuild while the plugin root
\* cannot be built from
FailedRebuild ==
    /\ TakesEvent
    /\ Head(rx).kind # "Error"
    /\ ~IsTarEvent(Head(rx))
    /\ setup_plugin_ports(root).status # "ok"

\* C24: neither a watcher error event nor a rebuild that fails ends the
\* server loop: the step that takes such an event leaves main in the loop,
\* and it leaves the current generation in place.
C24_FailuresNotFatal ==
    [][(TakesEvent /\ (Head(rx).kind = "Error" \/ FailedRebuild))
       => /\ pc' \in {"watch", "control"}
          /\ plugins' = plugins /\ files' = files /\ gen' = gen]_vars

(***************************************************************************)
(* The scan of the plugin root.                                            *)
(***************************************************************************)
\* the entry's own load: it succeeds, or it ends the process
Loads(dir) == folder_to_plugin(dir).status = "ok"
Panics(dir) == folder_to_plugin(dir).status = "panic"

\* the directory's descriptor is missing, malformed or carries an
\* unparsable version
BadDescriptor(dir) ==
    dir.is_dir /\ (dir.toml # "ok" \/ ParseVersion(dir.doc.version) = None)

\* the catalog made of the entries whose own load succeeds, in their order
OwnCatalog(entries) ==
    LET own == SelectSeq(entries, Loads)
    IN  ToPlugins([k \in 1..Len(own) |-> folder_to_plugin(own[k]).plugin[1]], 1, 0)

\* C21: the scan of a readable plugin root skips every directory whose
\* descriptor is missing, malformed or has an unparsable version (and every
\* other directory whose load returns an error), ignores the entries that
\* are not directories and loads every other directory: the catalog of the
\* first build is exactly the plugins whose own load succeeded, whatever
\* the other entries are. (A load that ends in a panic is the case of C25.)
C21_ScanSkipsFailing ==
    (pc # "start" /\ root.readable
        /\ \A k \in 1..Len(root.entries) : ~Panics(root.entries[k]))
    => /\ pc = "watch"
       /\ plugins = OwnCatalog(root.entries)
       /\ files = FlatFiles(plugins, 1)

\* a bad descriptor first, a plugin that loads second, a plain file third
C21_Witness ==
    /\ pc = "watch"
    /\ Len(root.entries) = 3
    /\ BadDescriptor(root.entries[1])
    /\ Loads(root.entries[2])
    /\ ~root.entries[3].is_dir
    /\ Len(plugins) = 1
    /\ plugins[1].name = root.entries[2].doc.name

\* the files of a folder bundle as they are to stand on the client: every
\* file of the tree at its path below the bundle's install root
Original(folder) ==
    {[path |-> Join(folder.install_root_location.path, folder.tree[k].rel),
      data |-> folder.tree[k].data] : k \in 1..Len(folder.tree)}

\* the catalog file that carries the f-th folder bundle of the k-th loaded entry
BundleFile(k, f) ==
    plugins[k].files[Len(SelectSeq(root.entries, Loads)[k].doc.files) + f]

\* C22: for every folder bundle the first build has packaged, the archive
\* served for it is installed under the bundle's install root with ".tar"
\* appended and, extracted by the client into the path without that
\* extension, gives every file of the bundle's tree at its path relative to
\* the install root with its bytes, and nothing else.
C22_PackExtractRoundTrip ==
    pc = "watch" =>
        \A k \in 1..Len(plugins) :
            LET folders == UnwrapOr(SelectSeq(root.entries, Loads)[k].doc.folders, <<>>)
            IN  \A f \in 1..Len(folders) :
                    /\ BundleFile(k, f).install
                           = AbsolutePath(folders[f].install_root_location.path \o ".tar")
                    /\ Unpack(files[BundleFile(k, f).index + 1],
                              ExtractToPath(BundleFile(k, f).install.path))
                           = Original(folders[f])

(***************************************************************************)
(* The catalog refresh.                                                    *)
(***************************************************************************)
\* every download index of the entries ps is a position of table, and the
\* blob at that position is the blob of the file that holds the index
Consistent(ps, table) ==
    \A k \in 1..Len(ps) : \A j \in 1..Len(ps[k].files) :
        /\ ps[k].files[j].index \in 0..(Len(table) - 1)
        /\ table[ps[k].files[j].index + 1] = ps[k].files[j].data

\* main stands in one of its accept loops, where requests are handled
Serving == pc \in {"control", "data"}

\* C23: wherever main handles a request, the entry list and the flat table
\* are the two halves of one build of the plugin root (never the emptied
\* list of the refresh, never the list of one build with the table of
\* another), and every download index of an entry's file is a position of
\* the flat table that holds that file's blob.
C23_AtomicSwap ==
    Serving =>
        /\ \E built \in {setup_plugin_ports(builtFrom)} :
               built.status = "ok" /\ plugins = built.plugins /\ files = built.files
        /\ Consistent(plugins, files)

\* a control request was answered by the generation that replaced the first
\* one, whose table differs from the first one's
C23_Witness ==
    /\ Serving
    /\ gen = 2
    /\ lastCtrl.seq >= 1
    /\ lastCtrl.gen = 2
    /\ \E r \in Roots : setup_plugin_ports(r).status = "ok" /\ setup_plugin_ports(r).files # files

\* the directory's descriptor and declared files are read, and the packaging
\* of one of its folder bundles fails
PackagingFails(dir) ==
    /\ dir.is_dir /\ ~BadDescriptor(dir)
    /\ ToFiles(dir.doc.files) # None
    /\ ~Loads(dir)

\* C25: when the packaging of a plugin's folder bundle fails (the archive
\* cannot be created, the walk reports an error, a source file cannot be
\* read), only that plugin is missing: the first build of a readable root
\* ends with main in its loop and with the catalog of the entries whose own
\* load succeeded.
C25_PackagingFailureContained ==
    (pc # "start" /\ root.readable
        /\ \E k \in 1..Len(root.entries) : PackagingFails(root.entries[k]))
    => /\ pc = "watch"
       /\ plugins = OwnCatalog(root.entries)

(***************************************************************************)
(* What the client installs.                                               *)
(***************************************************************************)
\* C26: every payload the client has handed to install_file has the length
\* its file's descriptor declares; in particular the empty payload of a data
\* connection the server closed without data is never installed, and no run
\* returns true after such a download.
C26_InstallsDeclaredSize ==
    \A j \in 1..Len(client.passed) :
        Len(client.passed[j].payload) = client.passed[j].file.size

\* C27: whatever the install locations of the offered files are and however
\* the installer's and the system's calls end, an update run never ends in
\* a panic: it is idle, under way, or has returned true or false.
C27_RunReturns ==
    /\ client.pc # "aborted"
    /\ client.pc = "returned" => client.result \in {Some(TRUE), Some(FALSE)}

====
